---- MODULE Spec2Model ----
(***************************************************************************)
(* Model of the strfile index decoder (src/lib.rs): StrMap::read, its      *)
(* 64-bit variant _x64_read and the pairing iterator OffsetsIter, run over *)
(* a std::io::Cursor holding the bytes of a .dat file.                     *)
(*                                                                         *)
(* A u32 is kept as a pair of 16-bit limbs <<hi, lo>> (value hi*2^16+lo),  *)
(* so that the whole 32-bit range, 2^32-1 included, is represented exactly.*)
(***************************************************************************)
EXTENDS Integers, Sequences, FiniteSets, TLC

VARIABLES
    bytes,      \* the content of the byte source (the Cursor's inner slice)
    pos,        \* the Cursor's position
    src,        \* the logical content the file was written from
    pc,         \* the statement of read/_x64_read to execute next
    version, count, longest, shortest, flags, delimiter,   \* locals of read
    bound,      \* the end of the range 0..(count + 1)
    i,          \* the range's counter: closure calls made so far
    values,     \* Vec of the raw offsets read
    offsets,    \* Vec of the (start, end) pairs
    result,     \* what read returned (or that it panicked)
    run,        \* which file of the test pair is being parsed
    prev        \* what read returned for the first file of the pair

header  == <<version, count, longest, shortest, flags, delimiter>>
table   == <<bound, i, values, offsets>>
input   == <<bytes, src>>
harness == <<run, prev>>
vars    == <<bytes, pos, src, pc, version, count, longest, shortest, flags,
             delimiter, bound, i, values, offsets, result, run, prev>>

-----------------------------------------------------------------------------
(* Bounds of the model. *)

\* declared counts 0..MaxCount (and 2^32-1) are tried
MaxCount == 3
\* files carry 0..MaxOffsets raw offsets after the header
MaxOffsets == 4

-----------------------------------------------------------------------------
(* 32-bit words and bytes. *)

Byte == 2^8
Limb == 2^16

U32(hi, lo) == <<hi, lo>>
ToU32(n)    == U32(n \div Limb, n % Limb)
U32_MAX     == U32(Limb - 1, Limb - 1)

\* big-endian (network order) bytes of a u32, as strfile writes them
BE(u) == <<u[1] \div Byte, u[1] % Byte, u[2] \div Byte, u[2] % Byte>>

None    == <<>>
Some(x) == <<x>>

Bit(n, k) == (n \div (2^k)) % 2

-----------------------------------------------------------------------------
(* bitflags! StrFlags *)

STR_RANDOM  == 1
STR_ORDERED == 2
STR_ROTATED == 4

\* StrFlags::all().bits
StrFlags_all == STR_RANDOM + STR_ORDERED + STR_ROTATED

\* StrFlags::from_bits: Some(flags) when no bit outside all() is set
from_bits(bits) ==
    IF \/ bits[1] # 0
       \/ \E k \in 0..15 : Bit(bits[2], k) = 1 /\ Bit(StrFlags_all, k) = 0
    THEN None ELSE Some(bits)

-----------------------------------------------------------------------------
(* The byte source: std::io::Cursor<&[u8]> through byteorder::ReadBytesExt. *)

\* the big-endian u32 held by the four bytes at 0-based offset p
WordAt(b, p) == U32(b[p + 1] * Byte + b[p + 2], b[p + 3] * Byte + b[p + 4])

\* s.read_u32::<NetworkEndian>(): read_exact of 4 bytes. On a short source it
\* is Err(UnexpectedEof); io::Read leaves the number of bytes consumed by a
\* failed read_exact unspecified, and Cursor either keeps its position or
\* moves to the end, depending on the library version.
read_u32(b, p) ==
    IF p + 4 <= Len(b)
    THEN {[ok |-> TRUE, pos |-> p + 4, val |-> WordAt(b, p)]}
    ELSE {[ok |-> FALSE, pos |-> q, val |-> None] : q \in {p, Len(b)}}

\* s.read_u8()
read_u8(b, p) ==
    IF p + 1 <= Len(b)
    THEN {[ok |-> TRUE, pos |-> p + 1, val |-> b[p + 1]]}
    ELSE {[ok |-> FALSE, pos |-> q, val |-> -1] : q \in {p, Len(b)}}

\* s.seek(SeekFrom::Current(n)): Cursor allows seeking past the end and
\* fails only on a negative (or overflowing) position
seek(p, n) ==
    IF p + n >= 0 THEN [ok |-> TRUE, pos |-> p + n]
                  ELSE [ok |-> FALSE, pos |-> p]

-----------------------------------------------------------------------------
(* What read returns. *)

NoResult == [kind |-> "None"]

\* Err(e) propagated by `?` from a short read
UnexpectedEof == [kind |-> "Err", error |-> "UnexpectedEof"]

\* Err(e) propagated by `?` from a failed seek
InvalidSeek == [kind |-> "Err", error |-> "InvalidInput"]

\* io::Error::new(Other, "Str count in header does not match ...: {} vs {}")
CountMismatch(declared, actual) ==
    [kind |-> "Err", error |-> "Other", declared |-> declared, actual |-> actual]

\* a panic unwinding out of read: nothing is returned
Panic(msg) == [kind |-> "Panic", msg |-> msg]

Ok(map) == [kind |-> "Ok", map |-> map]

Terminal == {"Done", "Failed", "Panicked"}

-----------------------------------------------------------------------------
(* OffsetsIter: remembers the last value and pairs it with the next. *)

\* OffsetsIter::next on state (source, last): <<item, source', last'>>
RECURSIVE OffsetsIter_next(_, _)
OffsetsIter_next_keeps_last(source, last) ==
    IF source = <<>> THEN <<None, source, last>>
    ELSE LET next == Head(source) IN
         IF last = None
         THEN OffsetsIter_next(Tail(source), Some(next))
         ELSE <<Some(<<last[1], next>>), Tail(source), last>>

OffsetsIter_next(source, last) ==
    IF source = <<>> THEN <<None, source, last>>
    ELSE LET next == Head(source) IN
         IF last = None
         THEN OffsetsIter_next(Tail(source), Some(next))
         ELSE <<Some(<<last[1], next>>), Tail(source), Some(next)>>

\* .collect() of an OffsetsIter in state (source, last)
RECURSIVE OffsetsIter_collect(_, _)
OffsetsIter_collect(source, last) ==
    LET r == OffsetsIter_next(source, last) IN
    IF r[1] = None THEN <<>>
    ELSE <<r[1][1]>> \o OffsetsIter_collect(r[2], r[3])

\* OffsetsIter::new(values.iter().cloned()).collect()
CollectOffsets_seeded(vals) == OffsetsIter_collect(vals, Some(U32(0, 0)))

CollectOffsets(vals) == OffsetsIter_collect(vals, None)

-----------------------------------------------------------------------------
(* The files decoded: a header and an offset table written in the layout   *)
(* the version selects, then cut at any length.                            *)

Versions   == {U32(0, 1), U32(0, 2), U32(1, 1)}
Counts     == {U32(0, n) : n \in 0..MaxCount} \cup {U32_MAX}
FlagWords  == {U32(0, 0), U32(0, 5), U32(0, 8), U32(1, 0)}
OffsetVals == {U32(0, 7), U32(3, 19)}
Longest    == U32(0, 61)
Shortest   == U32(0, 23)
Delimiters == {37}
PadBytes   == {170}

Pad(c, n) == [k \in 1..n |-> c.pad]

RECURSIVE Concat(_)
Concat(ss) == IF ss = <<>> THEN <<>> ELSE Head(ss) \o Concat(Tail(ss))

\* version:u32, count:u32, longest:u32, shortest:u32, flags:u32,
\* delimiter:u8, pad:u8[3], offsets:u32[]
StandardFile(c) ==
    BE(c.version) \o BE(c.count) \o BE(c.longest) \o BE(c.shortest)
    \o BE(c.flags) \o <<c.delimiter>> \o Pad(c, 3)
    \o Concat([k \in 1..Len(c.offs) |-> BE(c.offs[k])])

\* the same fields in 8-byte slots: 4 pad bytes after every u32, the
\* delimiter in the first byte of its slot
PaddedFile(c) ==
    BE(c.version) \o Pad(c, 4) \o BE(c.count) \o Pad(c, 4) \o BE(c.longest) \o Pad(c, 4)
    \o BE(c.shortest) \o Pad(c, 4) \o BE(c.flags) \o Pad(c, 4)
    \o <<c.delimiter>> \o Pad(c, 7)
    \o Concat([k \in 1..Len(c.offs) |-> BE(c.offs[k]) \o Pad(c, 4)])

IsPadded(c) == c.version = U32(0, 1)

FileOf(c) == IF IsPadded(c) THEN PaddedFile(c) ELSE StandardFile(c)

Contents ==
    [version : Versions, count : Counts, longest : {Longest},
     shortest : {Shortest}, flags : FlagWords, delimiter : Delimiters, pad : PadBytes,
     offs : UNION {[1..n -> OffsetVals] : n \in 0..MaxOffsets}]

\* the locals of read before it runs
Fresh ==
    /\ pos = 0
    /\ pc = "version"
    /\ version = None /\ count = None /\ longest = None
    /\ shortest = None /\ flags = None /\ delimiter = -1
    /\ bound = None /\ i = 0 /\ values = <<>> /\ offsets = <<>>
    /\ result = NoResult

\* Cursor::new(input), any input
Init ==
    /\ src \in Contents
    /\ \E cut \in 0..Len(FileOf(src)) : bytes = SubSeq(FileOf(src), 1, cut)
    /\ Fresh
    /\ run = 1
    /\ prev = NoResult

-----------------------------------------------------------------------------
(* StrMap::read, one action per statement. *)

\* `return Err(e)` / `return Ok(map)` / a panic
Return(to, res, p) ==
    /\ pc' = to
    /\ result' = res
    /\ pos' = p

\* let version = s.read_u32::<NetworkEndian>()?;
ReadVersion ==
    /\ pc = "version"
    /\ \E r \in read_u32(bytes, pos) :
         IF r.ok
         THEN /\ version' = r.val
              /\ pos' = r.pos
              /\ pc' = "dispatch"
              /\ UNCHANGED result
         ELSE /\ Return("Failed", UnexpectedEof, r.pos)
              /\ UNCHANGED version
    /\ UNCHANGED <<count, longest, shortest, flags, delimiter, table, input, harness>>

\* the layout test of read
is_x64(v) == v = U32(0, 1)

\* if version == 1 { return _x64_read(s); }
Dispatch ==
    /\ pc = "dispatch"
    /\ pc' = IF is_x64(version) THEN "x64_count" ELSE "count"
    /\ UNCHANGED <<pos, result, header, table, input, harness>>

\* let count = s.read_u32::<NetworkEndian>()?;
ReadCount ==
    /\ pc = "count"
    /\ \E r \in read_u32(bytes, pos) :
         IF r.ok
         THEN /\ count' = r.val
              /\ pos' = r.pos
              /\ pc' = "longest"
              /\ UNCHANGED result
         ELSE /\ Return("Failed", UnexpectedEof, r.pos)
              /\ UNCHANGED count
    /\ UNCHANGED <<version, longest, shortest, flags, delimiter, table, input, harness>>

\* let longest = s.read_u32::<NetworkEndian>()?;
ReadLongest ==
    /\ pc = "longest"
    /\ \E r \in read_u32(bytes, pos) :
         IF r.ok
         THEN /\ longest' = r.val
              /\ pos' = r.pos
              /\ pc' = "shortest"
              /\ UNCHANGED result
         ELSE /\ Return("Failed", UnexpectedEof, r.pos)
              /\ UNCHANGED longest
    /\ UNCHANGED <<version, count, shortest, flags, delimiter, table, input, harness>>

\* let shortest = s.read_u32::<NetworkEndian>()?;
ReadShortest ==
    /\ pc = "shortest"
    /\ \E r \in read_u32(bytes, pos) :
         IF r.ok
         THEN /\ shortest' = r.val
              /\ pos' = r.pos
              /\ pc' = "flags"
              /\ UNCHANGED result
         ELSE /\ Return("Failed", UnexpectedEof, r.pos)
              /\ UNCHANGED shortest
    /\ UNCHANGED <<version, count, longest, flags, delimiter, table, input, harness>>

\* let flags = StrFlags::from_bits(s.read_u32::<NetworkEndian>()?).expect("well, dammit");
ReadFlags ==
    /\ pc = "flags"
    /\ \E r \in read_u32(bytes, pos) :
         IF ~r.ok
         THEN /\ Return("Failed", UnexpectedEof, r.pos)
              /\ UNCHANGED flags
         ELSE IF from_bits(r.val) = None
         THEN /\ Return("Panicked", Panic("well, dammit"), r.pos)
              /\ UNCHANGED flags
         ELSE /\ flags' = from_bits(r.val)[1]
              /\ pos' = r.pos
              /\ pc' = "delimiter"
              /\ UNCHANGED result
    /\ UNCHANGED <<version, count, longest, shortest, delimiter, table, input, harness>>

\* let delimiter = s.read_u8()?;
ReadDelimiter ==
    /\ pc = "delimiter"
    /\ \E r \in read_u8(bytes, pos) :
         IF r.ok
         THEN /\ delimiter' = r.val
              /\ pos' = r.pos
              /\ pc' = "seek"
              /\ UNCHANGED result
         ELSE /\ Return("Failed", UnexpectedEof, r.pos)
              /\ UNCHANGED delimiter
    /\ UNCHANGED <<version, count, longest, shortest, flags, table, input, harness>>

\* s.seek(SeekFrom::Current(3))?;
SeekTable ==
    /\ pc = "seek"
    /\ LET sk == seek(pos, 3) IN
         IF sk.ok
         THEN /\ pos' = sk.pos
              /\ pc' = "range"
              /\ UNCHANGED result
         ELSE Return("Failed", InvalidSeek, sk.pos)
    /\ UNCHANGED <<header, table, input, harness>>

\* u32 comparison and the addition `count + 1`: with overflow checks (a debug
\* build) it panics at 2^32-1, without them (a release build) it wraps to 0
U32_lt(a, b) == a[1] < b[1] \/ (a[1] = b[1] /\ a[2] < b[2])

wrapping_add_1(u) ==
    IF u[2] < Limb - 1 THEN U32(u[1], u[2] + 1)
    ELSE IF u[1] < Limb - 1 THEN U32(u[1] + 1, 0)
    ELSE U32(0, 0)

count_plus_1(c) ==
    IF c = U32_MAX
    THEN {[ok |-> FALSE, val |-> None], [ok |-> TRUE, val |-> wrapping_add_1(c)]}
    ELSE {[ok |-> TRUE, val |-> wrapping_add_1(c)]}

\* (0..(count + 1))
Range ==
    /\ pc = "range"
    /\ \E b \in count_plus_1(count) :
         IF b.ok
         THEN /\ bound' = b.val
              /\ pc' = "values"
              /\ UNCHANGED <<pos, result>>
         ELSE /\ Return("Panicked", Panic("attempt to add with overflow"), pos)
              /\ UNCHANGED bound
    /\ UNCHANGED <<header, i, values, offsets, input, harness>>

\* one call of the closure of
\* (0..(count + 1)).filter_map(|_| s.read_u32::<NetworkEndian>().ok())
NextValue ==
    /\ pc = "values"
    /\ U32_lt(ToU32(i), bound)
    /\ i' = i + 1
    /\ \E r \in read_u32(bytes, pos) :
         /\ pos' = r.pos
         /\ values' = IF r.ok THEN Append(values, r.val) ELSE values
    /\ UNCHANGED <<pc, result, header, bound, offsets, input, harness>>

\* .collect(), then
\* let offsets: Vec<_> = OffsetsIter::new(values.iter().cloned()).collect();
PairOffsets ==
    /\ pc = "values"
    /\ ~U32_lt(ToU32(i), bound)
    /\ offsets' = CollectOffsets(values)
    /\ pc' = "validate"
    /\ UNCHANGED <<pos, result, header, bound, i, values, input, harness>>

\* count as usize != offsets.len()
count_matches_at_most(c, n) == ~U32_lt(c, ToU32(n))

count_matches(c, n) == c = ToU32(n)

\* StrMap { version: version, count: count, ... }
StrMap(v) ==
    [version |-> v, count |-> count, longest |-> longest, shortest |-> shortest,
     flags |-> flags, delimiter |-> delimiter, offsets |-> offsets]

\* if count as usize != offsets.len() { return Err(..) }  Ok(StrMap { .. })
Validate ==
    /\ pc = "validate"
    /\ IF ~count_matches(count, Len(offsets))
       THEN Return("Failed", CountMismatch(count, Len(offsets)), pos)
       ELSE Return("Done", Ok(StrMap(version)), pos)
    /\ UNCHANGED <<header, table, input, harness>>

-----------------------------------------------------------------------------
(* _x64_read, one action per statement. *)

\* s.seek(SeekFrom::Current(4))?;
\* let count = s.read_u32::<NetworkEndian>()?;
x64_ReadCount ==
    /\ pc = "x64_count"
    /\ LET sk == seek(pos, 4) IN
         IF ~sk.ok
         THEN /\ Return("Failed", InvalidSeek, sk.pos)
              /\ UNCHANGED count
         ELSE \E r \in read_u32(bytes, sk.pos) :
                IF r.ok
                THEN /\ count' = r.val
                     /\ pos' = r.pos
                     /\ pc' = "x64_longest"
                     /\ UNCHANGED result
                ELSE /\ Return("Failed", UnexpectedEof, r.pos)
                     /\ UNCHANGED count
    /\ UNCHANGED <<version, longest, shortest, flags, delimiter, table, input, harness>>

\* s.seek(SeekFrom::Current(4))?;
\* let longest = s.read_u32::<NetworkEndian>()?;
x64_ReadLongest ==
    /\ pc = "x64_longest"
    /\ LET sk == seek(pos, 4) IN
         IF ~sk.ok
         THEN /\ Return("Failed", InvalidSeek, sk.pos)
              /\ UNCHANGED longest
         ELSE \E r \in read_u32(bytes, sk.pos) :
                IF r.ok
                THEN /\ longest' = r.val
                     /\ pos' = r.pos
                     /\ pc' = "x64_shortest"
                     /\ UNCHANGED result
                ELSE /\ Return("Failed", UnexpectedEof, r.pos)
                     /\ UNCHANGED longest
    /\ UNCHANGED <<version, count, shortest, flags, delimiter, table, input, harness>>

\* s.seek(SeekFrom::Current(4))?;
\* let shortest = s.read_u32::<NetworkEndian>()?;
x64_ReadShortest ==
    /\ pc = "x64_shortest"
    /\ LET sk == seek(pos, 4) IN
         IF ~sk.ok
         THEN /\ Return("Failed", InvalidSeek, sk.pos)
              /\ UNCHANGED shortest
         ELSE \E r \in read_u32(bytes, sk.pos) :
                IF r.ok
                THEN /\ shortest' = r.val
                     /\ pos' = r.pos
                     /\ pc' = "x64_flags"
                     /\ UNCHANGED result
                ELSE /\ Return("Failed", UnexpectedEof, r.pos)
                     /\ UNCHANGED shortest
    /\ UNCHANGED <<version, count, longest, flags, delimiter, table, input, harness>>

\* s.seek(SeekFrom::Current(4))?;
\* let flags = StrFlags::from_bits(s.read_u32::<NetworkEndian>()?).expect("well, dammit");
x64_ReadFlags ==
    /\ pc = "x64_flags"
    /\ LET sk == seek(pos, 4) IN
         IF ~sk.ok
         THEN /\ Return("Failed", InvalidSeek, sk.pos)
              /\ UNCHANGED flags
         ELSE \E r \in read_u32(bytes, sk.pos) :
                IF ~r.ok
                THEN /\ Return("Failed", UnexpectedEof, r.pos)
                     /\ UNCHANGED flags
                ELSE IF from_bits(r.val) = None
                THEN /\ Return("Panicked", Panic("well, dammit"), r.pos)
                     /\ UNCHANGED flags
                ELSE /\ flags' = from_bits(r.val)[1]
                     /\ pos' = r.pos
                     /\ pc' = "x64_delimiter"
                     /\ UNCHANGED result
    /\ UNCHANGED <<version, count, longest, shortest, delimiter, table, input, harness>>

\* s.seek(SeekFrom::Current(4))?;
\* let delimiter = s.read_u8()?;
x64_ReadDelimiter ==
    /\ pc = "x64_delimiter"
    /\ LET sk == seek(pos, 4) IN
         IF ~sk.ok
         THEN /\ Return("Failed", InvalidSeek, sk.pos)
              /\ UNCHANGED delimiter
         ELSE \E r \in read_u8(bytes, sk.pos) :
                IF r.ok
                THEN /\ delimiter' = r.val
                     /\ pos' = r.pos
                     /\ pc' = "x64_seek"
                     /\ UNCHANGED result
                ELSE /\ Return("Failed", UnexpectedEof, r.pos)
                     /\ UNCHANGED delimiter
    /\ UNCHANGED <<version, count, longest, shortest, flags, table, input, harness>>

\* s.seek(SeekFrom::Current(7))?;
x64_SeekTable_3 ==
    /\ pc = "x64_seek"
    /\ LET sk == seek(pos, 3) IN
         IF sk.ok
         THEN /\ pos' = sk.pos
              /\ pc' = "x64_range"
              /\ UNCHANGED result
         ELSE Return("Failed", InvalidSeek, sk.pos)
    /\ UNCHANGED <<header, table, input, harness>>

x64_SeekTable ==
    /\ pc = "x64_seek"
    /\ LET sk == seek(pos, 7) IN
         IF sk.ok
         THEN /\ pos' = sk.pos
              /\ pc' = "x64_range"
              /\ UNCHANGED result
         ELSE Return("Failed", InvalidSeek, sk.pos)
    /\ UNCHANGED <<header, table, input, harness>>

\* (0..(count + 1))
x64_Range ==
    /\ pc = "x64_range"
    /\ \E b \in count_plus_1(count) :
         IF b.ok
         THEN /\ bound' = b.val
              /\ pc' = "x64_values"
              /\ UNCHANGED <<pos, result>>
         ELSE /\ Return("Panicked", Panic("attempt to add with overflow"), pos)
              /\ UNCHANGED bound
    /\ UNCHANGED <<header, i, values, offsets, input, harness>>

\* one call of the closure:
\*   let ret = s.read_u32::<NetworkEndian>().ok();
\*   match s.seek(SeekFrom::Current(4)) { Err(_) => None, _ => ret }
x64_NextValue_no_skip ==
    /\ pc = "x64_values"
    /\ U32_lt(ToU32(i), bound)
    /\ i' = i + 1
    /\ \E r \in read_u32(bytes, pos) :
         /\ pos' = r.pos
         /\ values' = IF r.ok THEN Append(values, r.val) ELSE values
    /\ UNCHANGED <<pc, result, header, bound, offsets, input, harness>>

x64_NextValue ==
    /\ pc = "x64_values"
    /\ U32_lt(ToU32(i), bound)
    /\ i' = i + 1
    /\ \E r \in read_u32(bytes, pos) :
         LET sk == seek(r.pos, 4) IN
         /\ pos' = sk.pos
         /\ values' = IF sk.ok /\ r.ok THEN Append(values, r.val) ELSE values
    /\ UNCHANGED <<pc, result, header, bound, offsets, input, harness>>

\* .collect(), then
\* let offsets: Vec<_> = OffsetsIter::new(values.iter().cloned()).collect();
x64_PairOffsets ==
    /\ pc = "x64_values"
    /\ ~U32_lt(ToU32(i), bound)
    /\ offsets' = CollectOffsets(values)
    /\ pc' = "x64_validate"
    /\ UNCHANGED <<pos, result, header, bound, i, values, input, harness>>

\* if count as usize != offsets.len() { return Err(..) }
\* Ok(StrMap { version: 1, .. })
x64_Validate ==
    /\ pc = "x64_validate"
    /\ IF ~count_matches(count, Len(offsets))
       THEN Return("Failed", CountMismatch(count, Len(offsets)), pos)
       ELSE Return("Done", Ok(StrMap(U32(0, 1))), pos)
    /\ UNCHANGED <<header, table, input, harness>>

-----------------------------------------------------------------------------
(* The tests: parse(SAMPLE_DAT) and parse(SAMPLE_DAT_64), the same content *)
(* written in the standard and in the padded layout.                       *)

\* the content of c as a 64-bit strfile writes it
As64(c) == [c EXCEPT !.version = U32(0, 1)]

\* can_parse_x64_dat after can_parse_x86_dat: Cursor::new(input) again
ParseNext ==
    /\ run = 1
    /\ pc \in Terminal
    /\ ~IsPadded(src)
    /\ run' = 2
    /\ prev' = result
    /\ src' = As64(src)
    /\ bytes' = PaddedFile(As64(src))
    /\ pos' = 0
    /\ pc' = "version"
    /\ version' = None /\ count' = None /\ longest' = None
    /\ shortest' = None /\ flags' = None /\ delimiter' = -1
    /\ bound' = None /\ i' = 0 /\ values' = <<>> /\ offsets' = <<>>
    /\ result' = NoResult

-----------------------------------------------------------------------------

Read ==
    \/ ReadVersion \/ Dispatch
    \/ ReadCount \/ ReadLongest \/ ReadShortest \/ ReadFlags \/ ReadDelimiter
    \/ SeekTable \/ Range \/ NextValue \/ PairOffsets \/ Validate
    \/ x64_ReadCount \/ x64_ReadLongest \/ x64_ReadShortest \/ x64_ReadFlags
    \/ x64_ReadDelimiter \/ x64_SeekTable \/ x64_Range \/ x64_NextValue
    \/ x64_PairOffsets \/ x64_Validate

Next == Read

Spec == Init /\ [][Next]_vars

\* the files of the test pair: a whole standard-layout file first
InitPair ==
    /\ src \in Contents
    /\ ~IsPadded(src)
    /\ bytes = StandardFile(src)
    /\ Fresh
    /\ run = 1
    /\ prev = NoResult

NextPair == Read \/ ParseNext

SpecPair == InitPair /\ [][NextPair]_vars

-----------------------------------------------------------------------------
(* The format, as the properties below refer to it. *)

Max(a, b) == IF a >= b THEN a ELSE b
Min(a, b) == IF a <= b THEN a ELSE b

\* where the offset table starts, how far apart its entries are, and how
\* many bytes a complete header takes (up to and including the delimiter)
TableStart == IF IsPadded(src) THEN 48 ELSE 24
Stride     == IF IsPadded(src) THEN 8 ELSE 4
FlagsEnd   == IF IsPadded(src) THEN 36 ELSE 20
HeaderEnd  == IF IsPadded(src) THEN 41 ELSE 21

\* the k-th raw offset on disk, k = 0, 1, ...
RawAt(k) == WordAt(bytes, TableStart + Stride * k)

\* the number of raw offsets the source holds in full after the header
Available ==
    IF Len(bytes) < TableStart + 4 THEN 0
    ELSE (Len(bytes) - TableStart - 4) \div Stride + 1

KnownFlags(w) == w[1] = 0 /\ w[2] < 8

AtValidate == pc \in {"validate", "x64_validate"}

\* read went as far as comparing the counts
Validated == pc \in {"Done", "Failed"} /\ bound # None

-----------------------------------------------------------------------------
(* Properties. *)

\* C1: read returns Ok only when the number of spans derived equals the
\* declared count (so len() is the number of items iter() yields), and when
\* the two differ it returns the count-mismatch error carrying the declared
\* and the actual number, never an Index.
C1_CountMatchesOrMismatch ==
    /\ pc = "Done" =>
         /\ result.kind = "Ok"
         /\ result.map.count = src.count
         /\ result.map.count = ToU32(Len(result.map.offsets))
         /\ result.map.offsets = offsets
    /\ (Validated /\ src.count # ToU32(Len(offsets))) =>
         /\ pc = "Failed"
         /\ result = [kind |-> "Err", error |-> "Other",
                      declared |-> src.count, actual |-> Len(offsets)]

C1_Witness ==
    /\ pc = "Failed"
    /\ result.kind = "Err"
    /\ result.error = "Other"
    /\ result.declared = U32(0, 2)
    /\ result.actual = 1

\* C2: a decoded file with declared count n holds the spans
\* (o0,o1), (o1,o2), ..., (o(n-1),on) of its raw offsets in on-disk order, so
\* the end of each span is the start of the next.
C2_AdjacentPairs ==
    pc = "Done" =>
      LET spans == result.map.offsets
          n     == Len(spans) IN
      /\ result.map.count = ToU32(n)
      /\ \A k \in 1..n : spans[k] = <<RawAt(k - 1), RawAt(k)>>
      /\ \A k \in 1..(n - 1) : spans[k][2] = spans[k + 1][1]

C2_Witness ==
    /\ pc = "Done"
    /\ Len(result.map.offsets) = 2
    /\ result.map.offsets[1] # result.map.offsets[2]

\* C3: a valid padded-layout file and the valid standard-layout file of the
\* same content decode to Indexes equal in count, longest, shortest, flags,
\* delimiter and spans; the padded one has version 1.
ValidContent(c) ==
    /\ KnownFlags(c.flags)
    /\ Len(c.offs) >= 1
    /\ c.count = ToU32(Len(c.offs) - 1)

C3_LayoutsAgree ==
    (run = 2 /\ pc \in Terminal /\ ValidContent(src)) =>
      /\ prev.kind = "Ok"
      /\ result.kind = "Ok"
      /\ prev.map.version # U32(0, 1)
      /\ result.map = [prev.map EXCEPT !.version = U32(0, 1)]

C3_Witness ==
    /\ run = 2
    /\ pc = "Done"
    /\ prev.kind = "Ok"
    /\ ValidContent(src)
    /\ Len(result.map.offsets) = 2

\* C4: a flags word with a bit outside {0x1, 0x2, 0x4} makes read return an
\* UnrecognizedFlags failure, whatever the other fields hold.
C4_UnrecognizedFlagsReturned ==
    (pc \in Terminal /\ Len(bytes) >= FlagsEnd /\ ~KnownFlags(src.flags)) =>
      /\ pc = "Failed"
      /\ result.kind = "Err"
      /\ result.error = "UnrecognizedFlags"

\* C5: with a well-formed header declaring n, read succeeds exactly when
\* n + 1 offsets (with their padding) follow the header, and with n or fewer
\* it fails with Truncated or CountMismatch. (Stated for the counts below
\* 2^32-1, whose n + 1 is a u32; C10 is about the last one.)
ExactTable == Len(bytes) = TableStart + (src.count[2] + 1) * Stride

C5_SucceedsIffExactTable ==
    (/\ pc \in Terminal
     /\ Len(bytes) >= HeaderEnd
     /\ KnownFlags(src.flags)
     /\ src.count # U32_MAX) =>
      /\ pc = "Done" <=> ExactTable
      /\ Available <= src.count[2] =>
           /\ pc = "Failed"
           /\ result.kind = "Err"
           /\ result.error \in {"UnexpectedEof", "Other"}

\* C6: a source that ends before one of the six header fields is complete
\* makes read return Truncated, and no Index has a field that was not read.
C6_ShortHeaderIsTruncated ==
    /\ (pc \in Terminal /\ Len(bytes) < HeaderEnd) =>
         /\ pc = "Failed"
         /\ result = UnexpectedEof
    /\ pc = "Done" => Len(bytes) >= HeaderEnd

\* C7: the first big-endian u32 alone selects the layout; when it is 1 the
\* fields come from bytes 8-11/16-19/24-27/32-35 and 40 and the source is left
\* at byte 48, otherwise from bytes 4-7/8-11/12-15/16-19 and 20 and the source
\* is left at byte 24; the version stored is the value read.
StandardSteps ==
    {"count", "longest", "shortest", "flags", "delimiter", "seek", "range",
     "values", "validate"}
PaddedSteps ==
    {"x64_count", "x64_longest", "x64_shortest", "x64_flags", "x64_delimiter",
     "x64_seek", "x64_range", "x64_values", "x64_validate"}

C7_HeaderPositions ==
    /\ pc \in PaddedSteps => WordAt(bytes, 0) = U32(0, 1)
    /\ pc \in StandardSteps => WordAt(bytes, 0) # U32(0, 1)
    /\ pc = "x64_range" =>
         /\ count = WordAt(bytes, 8) /\ longest = WordAt(bytes, 16)
         /\ shortest = WordAt(bytes, 24) /\ flags = WordAt(bytes, 32)
         /\ delimiter = bytes[40 + 1]
         /\ pos = 48
    /\ pc = "range" =>
         /\ count = WordAt(bytes, 4) /\ longest = WordAt(bytes, 8)
         /\ shortest = WordAt(bytes, 12) /\ flags = WordAt(bytes, 16)
         /\ delimiter = bytes[20 + 1]
         /\ pos = 24
    /\ pc \in {"range", "x64_range"} =>
         /\ version = src.version /\ count = src.count
         /\ longest = src.longest /\ shortest = src.shortest
         /\ flags = src.flags /\ delimiter = src.delimiter
    /\ pc = "Done" => result.map.version = WordAt(bytes, 0)

C7_Witness ==
    /\ pc = "x64_range"
    /\ pos = 48
    /\ count = U32(0, 2)
    /\ Len(bytes) > 48

\* C8, as stated: with fewer than count + 1 raw offsets available the builder
\* yields min(0, available - 1) spans. (Stated where that number is not
\* negative: at least one raw offset is available.)
C8_MinSpans ==
    (/\ AtValidate
     /\ Available >= 1
     /\ (count = U32_MAX \/ Available < count[2] + 1)) =>
      Len(offsets) = Min(0, Available - 1)

\* C8, amended: with fewer than count + 1 raw offsets available the builder
\* yields max(0, r - 1) spans, r being the number of raw offsets it read:
\* all that are available, or none when count + 1 wrapped to 0.
C8_MaxSpans ==
    (AtValidate /\ (count = U32_MAX \/ Available < count[2] + 1)) =>
      /\ Len(values) = IF bound = U32(0, 0) THEN 0 ELSE Available
      /\ Len(offsets) = Max(0, Len(values) - 1)

C8_Witness ==
    /\ AtValidate
    /\ count = U32(0, 2)
    /\ Available = 2
    /\ Len(offsets) = 1

\* C9: the first failed read is fatal: no read follows it and the invocation
\* ends in Failed.
C9_FailedReadIsFatal ==
    (pc \in Terminal /\ i > Len(values)) =>
      /\ pc = "Failed"
      /\ i = Len(values) + 1

\* C10: count + 1 never wraps: a header declaring 2^32-1 gives no loop bound
\* of 0 and ends in a returned failure, and every other count makes the
\* builder attempt exactly count + 1 reads.
C10_BoundDoesNotWrap ==
    /\ count = U32_MAX =>
         /\ bound # U32(0, 0)
         /\ (pc \in Terminal /\ delimiter # -1) => pc = "Failed"
    /\ (AtValidate /\ count # U32_MAX) => i = count[2] + 1

====
